---- MODULE Spec2Model ----
(***************************************************************************)
(* Model of solrad/climate/pvgis_tmy.py.                                   *)
(*                                                                         *)
(*   get_pvgis_tmy_dataframe                (fetch and normalise the TMY)  *)
(*   climate_data_from_pvgis_tmy_dataframe  (per-day interpolation)        *)
(*                                                                         *)
(* Numbers.  Times of day are kept in whole seconds, so the fractional     *)
(* hour  hour + minute/60 + second/3600  is  (its value in seconds)/3600.  *)
(* TMY values are integers.  An interpolated value is kept as a numerator  *)
(* over 3600, which is exact for linear interpolation between integer      *)
(* nodes one hour apart.  Arithmetic is exact: floating-point rounding of  *)
(* numpy/scipy is not modelled.  A quadratic or cubic spline value at a    *)
(* point that is not a node is kept as a term naming the method, the 25    *)
(* nodes and the point: the spline is a function of exactly these.         *)
(***************************************************************************)
EXTENDS Integers, Sequences, FiniteSets, TLC

(***************************************************************************)
(* Bounds of the model.                                                    *)
(***************************************************************************)
MaxGroups == 2
MaxLen == 2
NumCols == 2
MaxSeed == 1

(***************************************************************************)
(* Calendar.                                                               *)
(***************************************************************************)
IsLeapYear(y) == (y % 4 = 0 /\ y % 100 # 0) \/ y % 400 = 0

DaysInMonth(y, m) ==
    IF m = 2 THEN (IF IsLeapYear(y) THEN 29 ELSE 28)
    ELSE IF m \in {4, 6, 9, 11} THEN 30 ELSE 31

\* Month lengths of the non-leap calendar the TMY table is keyed by.
TmyDaysInMonth(m) == IF m = 2 THEN 28 ELSE IF m \in {4, 6, 9, 11} THEN 30 ELSE 31

(***************************************************************************)
(* The TMY table (tmy_data): a DataFrame indexed by (Month, Day, Hour),    *)
(* rows in ascending key order.  A table is described by the set of keys   *)
(* of the non-leap calendar it lacks and by a seed that fixes its values;  *)
(* TmyHasRow and TmyCell read it.                                          *)
(***************************************************************************)
AllColumns == <<"T2m", "RH", "G(h)", "Gb(n)", "Gd(h)", "IR(h)", "WS10m", "WD10m", "SP">>

TmyColumns == SubSeq(AllColumns, 1, NumCols)

ColumnNumber(col) == CHOOSE i \in 1..Len(AllColumns) : AllColumns[i] = col

TmyHasRow(tmy, m, d, h) ==
    /\ m \in 1..12
    /\ d \in 1..TmyDaysInMonth(m)
    /\ h \in 0..23
    /\ <<m, d, h>> \notin tmy.missing

TmyCell(tmy, m, d, h, col) ==
    ((3 * m + d + 5 * h * h + 7 * ColumnNumber(col) * (h + 1)
        + tmy.seed * (m + h + 1)) % 37) + 2

\* The hours h for which the table has a row keyed (m, d, h), ascending.
HoursPresent(tmy, m, d) ==
    SelectSeq([i \in 1..24 |-> i - 1], LAMBDA h : TmyHasRow(tmy, m, d, h))

\* tmy_data.loc[(month, day_), col]: the values of the rows keyed (month, day_, *),
\* in table order.  No such row: KeyError.
LocDayRaises(tmy, m, d) == HoursPresent(tmy, m, d) = <<>>

LocDay(tmy, m, d, col) ==
    LET hs == HoursPresent(tmy, m, d)
    IN  [i \in 1..Len(hs) |-> TmyCell(tmy, m, d, hs[i], col)]

(***************************************************************************)
(* Values held by the result tables.                                       *)
(*   Exact(n)          the number n/3600                                   *)
(*   NaN               a cell of a new DataFrame not yet assigned          *)
(*   SplineAt(k, y, x) the value at x/3600 of the spline of kind k that    *)
(*                     interpolates the nodes y at 0..24, x not a node     *)
(***************************************************************************)
Exact(n) == [kind |-> "exact", num |-> n, nodes |-> <<>>, at |-> 0]

NaN == [kind |-> "nan", num |-> 0, nodes |-> <<>>, at |-> 0]

SplineAt(k, y, x) == [kind |-> k, num |-> 0, nodes |-> y, at |-> x]

Methods == {"linear", "quadratic", "cubic"}

(***************************************************************************)
(* scipy.interpolate.interp1d(x, y, kind) and its evaluation.              *)
(***************************************************************************)
\* Mutation of x_interp: np.arange(1, 26).
x_interp_FromOne == [i \in 1..25 |-> i]

\* x_interp = np.arange(25)
x_interp == [i \in 1..25 |-> i - 1]

\* interp1d refuses x and y of different lengths (ValueError).
Interp1dRaises(x, y) == Len(x) # Len(y)

Clip(v, lo, hi) == IF v < lo THEN lo ELSE IF v > hi THEN hi ELSE v

\* np.searchsorted(x, x_new): the number of nodes strictly below x_new (seconds).
SearchSorted(x, xnew) == Cardinality({i \in 1..Len(x) : 3600 * x[i] < xnew})

\* Mutation of CallLinear: the line starts from y_hi instead of y_lo.
CallLinear_FromHi(x, y, xnew) ==
    LET idx == Clip(SearchSorted(x, xnew), 1, Len(x) - 1)
    IN  ((y[idx + 1] - y[idx]) * (xnew - 3600 * x[idx])) \div (x[idx + 1] - x[idx])
        + 3600 * y[idx + 1]

\* interp1d._call_linear: lo = clip(searchsorted, 1, len - 1) - 1, hi = lo + 1,
\* slope = (y_hi - y_lo) / (x_hi - x_lo), y_new = slope * (x_new - x_lo) + y_lo.
\* The result is the numerator over 3600.
CallLinear(x, y, xnew) ==
    LET idx == Clip(SearchSorted(x, xnew), 1, Len(x) - 1)
        lo  == idx          \* 1-based position of the 0-based index idx - 1
        hi  == idx + 1
    IN  ((y[hi] - y[lo]) * (xnew - 3600 * x[lo])) \div (x[hi] - x[lo]) + 3600 * y[lo]

\* interp_func(x_new) for one point.  A spline of kind quadratic or cubic passes
\* through its nodes; elsewhere its value is SplineAt.
InterpAt(kind, x, y, xnew) ==
    IF kind = "linear" THEN Exact(CallLinear(x, y, xnew))
    ELSE IF \E i \in 1..Len(x) : 3600 * x[i] = xnew
         THEN Exact(3600 * y[CHOOSE i \in 1..Len(x) : 3600 * x[i] = xnew])
         ELSE SplineAt(kind, y, xnew)

(***************************************************************************)
(* Pieces of climate_data_from_pvgis_tmy_dataframe.                        *)
(***************************************************************************)
\* Mutation of HmsFloat: the seconds are left out.
HmsFloat_NoSeconds(ts) == 3600 * ts.hour + 60 * ts.minute

\* Mutation of HmsFloat: the sub-second part rounds the second up.
HmsFloat_RoundsMs(ts) ==
    3600 * ts.hour + 60 * ts.minute + ts.second + (IF ts.ms >= 500 THEN 1 ELSE 0)

\* hms_float of one timestamp, in seconds: hour + minute/60 + second/3600.
HmsFloat(ts) == 3600 * ts.hour + 60 * ts.minute + ts.second

\* Mutation of LookupDay: February 29 is served by the 27th.
LookupDay_Feb27(month, day) == IF <<month, day>> = <<2, 29>> THEN 27 ELSE day

\* day_ = day, or 28 when (month, day) == (2, 29).
LookupDay(month, day) == IF <<month, day>> = <<2, 29>> THEN 28 ELSE day

\* columns = ["hms_float"] + list(tmy_data.columns)
FrameColumns == <<"hms_float">> \o TmyColumns

\* Mutation of NewFrame: hms_float is the last column instead of the first.
NewFrame_HmsLast(times) ==
    [index   |-> times,
     columns |-> TmyColumns \o <<"hms_float">>,
     data    |-> [cn \in {FrameColumns[i] : i \in 1..Len(FrameColumns)} |->
                     [i \in 1..Len(times) |-> NaN]]]

\* pd.DataFrame(index = DatetimeIndex_obj, columns = ...): every cell NaN.
NewFrame(times) ==
    [index   |-> times,
     columns |-> FrameColumns,
     data    |-> [cn \in {FrameColumns[i] : i \in 1..Len(FrameColumns)} |->
                     [i \in 1..Len(times) |-> NaN]]]

NoKey == <<0, 0, 0>>

\* Mutation of ClosingKey: the fallback to day 1 of the next month is missing.
ClosingKey_NoNextMonth(tmy, month, day_) ==
    IF TmyHasRow(tmy, month, day_ + 1, 0) THEN <<month, day_ + 1, 0>>
    ELSE IF TmyHasRow(tmy, 1, 1, 0) THEN <<1, 1, 0>>
    ELSE NoKey

\* Mutation of ClosingKey: the last fallback is taken whether or not the key
\* exists, so nothing is ever raised.
ClosingKey_NeverRaises(tmy, month, day_) ==
    IF TmyHasRow(tmy, month, day_ + 1, 0) THEN <<month, day_ + 1, 0>>
    ELSE IF TmyHasRow(tmy, month + 1, 1, 0) THEN <<month + 1, 1, 0>>
    ELSE <<1, 1, 0>>

\* The try/except chain that resolves the closing node: the first of
\* (month, day_+1, 0), (month+1, 1, 0), (1, 1, 0) that is a key of the table;
\* NoKey when the last KeyError is re-raised.
ClosingKey(tmy, month, day_) ==
    IF TmyHasRow(tmy, month, day_ + 1, 0) THEN <<month, day_ + 1, 0>>
    ELSE IF TmyHasRow(tmy, month + 1, 1, 0) THEN <<month + 1, 1, 0>>
    ELSE IF TmyHasRow(tmy, 1, 1, 0) THEN <<1, 1, 0>>
    ELSE NoKey

\* y_interp after the append.
YInterp(tmy, month, day_, col) ==
    LET k == ClosingKey(tmy, month, day_)
    IN  LocDay(tmy, month, day_, col) \o <<TmyCell(tmy, k[1], k[2], k[3], col)>>

(***************************************************************************)
(* State of one call of climate_data_from_pvgis_tmy_dataframe.             *)
(*   tmy_data, time_data, interp_method   the arguments                    *)
(*   pc            "start" | "group" (head of the loop over time_data)     *)
(*                 | "column" (head of the loop over tmy_data.columns)     *)
(*                 | "returned" | "raised"                                 *)
(*   g, c          position in time_data and in tmy_data.columns           *)
(*   ymd, col      the loop variables (year, month, day) and col           *)
(*   hms_float, day_, y_interp, climate_data   the other locals            *)
(*   result        <<>> until the call returns, then <<the returned dict>> *)
(*   error         the exception that ended the call, "" if none           *)
(* and of one call of get_pvgis_tmy_dataframe (further below):             *)
(*   fpc, tz, response, tmy_table                                          *)
(***************************************************************************)
VARIABLES tmy_data, time_data, interp_method, pc, g, c, ymd, col, hms_float, day_,
          y_interp, climate_data, result, error, fpc, tz, response, tmy_table

interpVars == <<tmy_data, time_data, interp_method, pc, g, c, ymd, col, hms_float,
                day_, y_interp, climate_data, result, error>>

fetchVars == <<fpc, tz, response, tmy_table>>

vars == <<tmy_data, time_data, interp_method, pc, g, c, ymd, col, hms_float, day_,
          y_interp, climate_data, result, error, fpc, tz, response, tmy_table>>

EmptyDict == [k \in {} |-> 0]

\* Mutation of DictSet: the dict is started afresh for every group.
DictSet_Fresh(dict, key, frame) == [k \in {key} |-> frame]

\* climate_data[key] = frame
DictSet(dict, key, frame) ==
    [k \in (DOMAIN dict) \cup {key} |-> IF k = key THEN frame ELSE dict[k]]

\* climate_data[key][column] = values
SetColumn(dict, key, column, values) ==
    [dict EXCEPT ![key].data[column] = values]

\* climate_data = {} ; x_interp = np.arange(25)
Start ==
    /\ pc = "start"
    /\ climate_data' = EmptyDict
    /\ g' = 1
    /\ pc' = "group"
    /\ UNCHANGED <<tmy_data, time_data, interp_method, c, ymd, col, hms_float, day_,
                   y_interp, result, error>>
    /\ UNCHANGED fetchVars

\* The head of the loop over time_data and the body down to the loop over the
\* columns: (year, month, day), hms_float, the new DataFrame with its hms_float
\* column, and day_.
BeginGroup ==
    /\ pc = "group"
    /\ g <= Len(time_data)
    /\ LET key   == time_data[g].key
           times == time_data[g].times
           hms   == [i \in 1..Len(times) |-> HmsFloat(times[i])]
       IN  /\ ymd' = key
           /\ hms_float' = hms
           /\ climate_data' =
                SetColumn(DictSet(climate_data, key, NewFrame(times)),
                          key, "hms_float", [i \in 1..Len(times) |-> Exact(hms[i])])
           /\ day_' = LookupDay(key[2], key[3])
    /\ IF Len(TmyColumns) = 0
       THEN /\ pc' = "group" /\ g' = g + 1 /\ c' = c
       ELSE /\ pc' = "column" /\ g' = g /\ c' = 1
    /\ UNCHANGED <<tmy_data, time_data, interp_method, col, y_interp, result, error>>
    /\ UNCHANGED fetchVars

\* What the body of the loop over the columns raises for column cn, "" if nothing:
\* KeyError from tmy_data.loc[(month, day_), col] or from the last fallback,
\* ValueError from interp1d.
ColumnError(cn) ==
    IF LocDayRaises(tmy_data, ymd[2], day_) THEN "KeyError"
    ELSE IF ClosingKey(tmy_data, ymd[2], day_) = NoKey THEN "KeyError"
    ELSE IF Interp1dRaises(x_interp, YInterp(tmy_data, ymd[2], day_, cn)) THEN "ValueError"
    ELSE ""

\* The body of the loop over the columns, for a column that raises nothing.
InterpolateColumn ==
    /\ pc = "column"
    /\ ColumnError(TmyColumns[c]) = ""
    /\ col' = TmyColumns[c]
    /\ y_interp' = YInterp(tmy_data, ymd[2], day_, TmyColumns[c])
    /\ climate_data' =
         SetColumn(climate_data, ymd, TmyColumns[c],
                   [i \in 1..Len(hms_float) |->
                        InterpAt(interp_method, x_interp, y_interp', hms_float[i])])
    /\ IF c < Len(TmyColumns)
       THEN /\ c' = c + 1 /\ pc' = "column" /\ g' = g
       ELSE /\ c' = c /\ pc' = "group" /\ g' = g + 1
    /\ UNCHANGED <<tmy_data, time_data, interp_method, ymd, hms_float, day_, result, error>>
    /\ UNCHANGED fetchVars

\* The body of the loop over the columns, for a column that raises: the
\* exception leaves the function and nothing is returned.
RaiseFromColumn ==
    /\ pc = "column"
    /\ ColumnError(TmyColumns[c]) # ""
    /\ col' = TmyColumns[c]
    /\ error' = ColumnError(TmyColumns[c])
    /\ pc' = "raised"
    /\ UNCHANGED <<tmy_data, time_data, interp_method, g, c, ymd, hms_float, day_,
                   y_interp, climate_data, result>>
    /\ UNCHANGED fetchVars

\* return climate_data
Return ==
    /\ pc = "group"
    /\ g > Len(time_data)
    /\ result' = <<climate_data>>
    /\ pc' = "returned"
    /\ UNCHANGED <<tmy_data, time_data, interp_method, g, c, ymd, col, hms_float, day_,
                   y_interp, climate_data, error>>
    /\ UNCHANGED fetchVars

Next ==
    \/ Start
    \/ BeginGroup
    \/ InterpolateColumn
    \/ RaiseFromColumn
    \/ Return

(***************************************************************************)
(* The arguments of a call.                                                *)
(*                                                                         *)
(* time_data is a dict {(year, month, day): DatetimeIndex}; it is kept as  *)
(* the sequence of its items in insertion order, the keys distinct.  A     *)
(* DatetimeIndex is a sequence of timestamps laid out like a date range:   *)
(* a start, a frequency of 30 minutes, a length.  A range that passes      *)
(* midnight continues on the next date, and a range may be dated           *)
(* differently from the key it is filed under: the function checks         *)
(* neither.                                                                *)
(***************************************************************************)
Timestamp(date, sec, ms) ==
    [year |-> date[1], month |-> date[2], day |-> date[3],
     hour |-> sec \div 3600, minute |-> (sec % 3600) \div 60, second |-> sec % 60,
     ms |-> ms]

NextDate(date) ==
    IF date[3] < DaysInMonth(date[1], date[2]) THEN <<date[1], date[2], date[3] + 1>>
    ELSE IF date[2] < 12 THEN <<date[1], date[2] + 1, 1>>
    ELSE <<date[1] + 1, 1, 1>>

Freq == 30 * 60

DateRange(date, start, ms, n) ==
    [i \in 1..n |->
        LET t == start + (i - 1) * Freq
        IN  IF t < 24 * 3600 THEN Timestamp(date, t, ms)
            ELSE Timestamp(NextDate(date), t - 24 * 3600, ms)]

IsDate(key) == key[2] \in 1..12 /\ key[3] \in 1..DaysInMonth(key[1], key[2])

Group(key, times) == [key |-> key, times |-> times]

FullTables == {[seed |-> s, missing |-> {}] : s \in 0..MaxSeed}

HoledTables == {[seed |-> 0, missing |-> {<<3, 1, 0>>}],
                [seed |-> 0, missing |-> {<<1, 1, 0>>}]}

\* One group, a range starting at any hour, half hour or last second of an hour.
HourKeys == {<<2023, 6, 15>>, <<2024, 2, 29>>, <<2024, 12, 31>>, <<2023, 2, 30>>}

HourStarts == {3600 * h + off : h \in 0..23, off \in {0, 1800, 3599}}

HourMaps ==
    {<<Group(k, DateRange(IF IsDate(k) THEN k ELSE <<k[1], 3, 2>>, st, 0, n))>> :
        k \in HourKeys, st \in HourStarts, n \in 1..MaxLen}

\* One group for every date of the calendar, February 29 included.
CalendarKeys == {k \in {<<2024, m, d>> : m \in 1..12, d \in 1..31} : IsDate(k)}

CalendarMaps == {<<Group(k, DateRange(k, 23 * 3600 + 1800, 0, 1))>> : k \in CalendarKeys}

\* Up to MaxGroups groups around the end of February and the end of the year:
\* ranges from 10:30:00 dated as their key, empty ones, and for one key ranges
\* dated 2023-07-04 with a sub-second part.
MapKeys == {<<2023, 2, 28>>, <<2024, 2, 28>>, <<2024, 2, 29>>, <<2024, 12, 31>>}

MapGroups ==
    {Group(k, DateRange(k, 10 * 3600 + 1800, 0, n)) : k \in MapKeys, n \in 0..MaxLen}
    \cup {Group(<<2023, 2, 28>>, DateRange(<<2023, 7, 4>>, 10 * 3600 + 1800, 999, n)) :
             n \in 1..MaxLen}

DistinctKeys(td) == \A i, j \in 1..Len(td) : td[i].key = td[j].key => i = j

RECURSIVE SeqsUpTo(_, _)
SeqsUpTo(S, n) ==
    IF n = 0 THEN {<<>>}
    ELSE LET shorter == SeqsUpTo(S, n - 1)
         IN  shorter \cup {Append(q, x) : q \in {r \in shorter : Len(r) = n - 1}, x \in S}

GroupMaps == {td \in SeqsUpTo(MapGroups, MaxGroups) : DistinctKeys(td)}

InitInterpLocals ==
    /\ pc = "start"
    /\ g = 0
    /\ c = 0
    /\ ymd = <<0, 0, 0>>
    /\ col = ""
    /\ hms_float = <<>>
    /\ day_ = 0
    /\ y_interp = <<>>
    /\ climate_data = EmptyDict
    /\ result = <<>>
    /\ error = ""

FetchIdle ==
    /\ fpc = "idle"
    /\ tz = "UTC"
    /\ response = <<>>
    /\ tmy_table = <<>>

Init ==
    /\ \/ /\ time_data \in HourMaps
          /\ tmy_data \in FullTables
       \/ /\ time_data \in CalendarMaps
          /\ tmy_data \in FullTables \cup HoledTables
       \/ /\ time_data \in GroupMaps
          /\ tmy_data \in {[seed |-> 0, missing |-> {}], [seed |-> 0, missing |-> {<<1, 1, 0>>}]}
    /\ interp_method \in Methods
    /\ InitInterpLocals
    /\ FetchIdle

Spec == Init /\ [][Next]_vars

(***************************************************************************)
(* Properties of climate_data_from_pvgis_tmy_dataframe.                    *)
(***************************************************************************)
Returned == pc = "returned"

Groups == 1..Len(time_data)

Positions(i) == 1..Len(time_data[i].times)

KeyOf(i) == time_data[i].key

StampOf(i, p) == time_data[i].times[p]

\* The table returned for group i, and its cell in column cn at position p.
TableOf(i) == result[1][KeyOf(i)]

CellOf(i, cn, p) == TableOf(i).data[cn][p]

ColumnNames == {TmyColumns[n] : n \in 1..Len(TmyColumns)}

\* The day whose TMY rows serve a key: the 28th for February 29.
LookupDayOf(key) == IF key[2] = 2 /\ key[3] = 29 THEN 28 ELSE key[3]

\* The time of day of a timestamp in seconds, without its sub-second part.
SecondsOfDay(ts) == ts.hour * 3600 + ts.minute * 60 + ts.second

\* The day after (m, d) in the non-leap calendar.
NextCalendarDay(m, d) ==
    IF d < TmyDaysInMonth(m) THEN <<m, d + 1>>
    ELSE IF m < 12 THEN <<m + 1, 1>>
    ELSE <<1, 1>>

\* The value of node h (0..24) of group i in column cn: the TMY value of hour h of
\* the lookup day, and for h = 24 the value at the resolved closing key.
NodeOf(i, cn, h) ==
    LET m  == KeyOf(i)[2]
        ld == LookupDayOf(KeyOf(i))
        k  == ClosingKey(tmy_data, m, ld)
    IN  IF h < 24 THEN TmyCell(tmy_data, m, ld, h, cn)
        ELSE TmyCell(tmy_data, k[1], k[2], k[3], cn)

Abs(n) == IF n < 0 THEN 0 - n ELSE n

\* C2: a timestamp at h:00:00 gets, for every column and every method, exactly
\* the TMY value of row (month, lookup day, h); 00:00:00 gets the hour-0 value.
C2_ExactAtHourMarks ==
    Returned =>
        \A i \in Groups : \A p \in Positions(i) : \A cn \in ColumnNames :
            LET ts == StampOf(i, p)
            IN  (ts.minute = 0 /\ ts.second = 0) =>
                    CellOf(i, cn, p) =
                        Exact(3600 * TmyCell(tmy_data, KeyOf(i)[2], LookupDayOf(KeyOf(i)),
                                             ts.hour, cn))

C2_Witness ==
    /\ Returned
    /\ interp_method = "cubic"
    /\ \E i \in Groups : \E p, q \in Positions(i) :
          /\ KeyOf(i) = <<2024, 2, 29>>
          /\ StampOf(i, p).hour = 23 /\ SecondsOfDay(StampOf(i, p)) = 23 * 3600 + 1800
          /\ StampOf(i, q).hour = 0 /\ SecondsOfDay(StampOf(i, q)) = 0
          /\ CellOf(i, "T2m", q) = Exact(3600 * TmyCell(tmy_data, 2, 28, 0, "T2m"))
          /\ CellOf(i, "T2m", p).kind = "cubic"

SameTimesOfDay(a, b) ==
    /\ Len(a) = Len(b)
    /\ \A p \in 1..Len(a) :
          /\ a[p].hour = b[p].hour
          /\ a[p].minute = b[p].minute
          /\ a[p].second = b[p].second
          /\ a[p].ms = b[p].ms

\* C3: the table of a group keyed (year, 2, 29) has the shape and the values of
\* the table of a group keyed (year, 2, 28) holding the same times of day.
C3_LeapDayAsFeb28 ==
    Returned =>
        \A i, j \in Groups :
            ( /\ KeyOf(i) = <<KeyOf(j)[1], 2, 29>>
              /\ KeyOf(j)[2] = 2 /\ KeyOf(j)[3] = 28
              /\ SameTimesOfDay(time_data[i].times, time_data[j].times) )
            => /\ Len(TableOf(i).index) = Len(TableOf(j).index)
               /\ TableOf(i).columns = TableOf(j).columns
               /\ TableOf(i).data = TableOf(j).data

C3_Witness ==
    /\ Returned
    /\ interp_method = "quadratic"
    /\ \E i, j \in Groups :
          /\ KeyOf(i) = <<2024, 2, 29>>
          /\ KeyOf(j) = <<2024, 2, 28>>
          /\ Len(time_data[i].times) = MaxLen
          /\ SameTimesOfDay(time_data[i].times, time_data[j].times)
          /\ time_data[i].times # time_data[j].times
          /\ TableOf(i).data["RH"][1].nodes[25] = TmyCell(tmy_data, 3, 1, 0, "RH")

\* The locals ymd, col and y_interp all come from the column interpolated last.
JustInterpolated ==
    \/ pc = "column" /\ c > 1
    \/ pc = "group" /\ g > 1
    \/ pc = "returned" /\ Len(time_data) > 0

\* C4: with a TMY table holding every key of the non-leap calendar, for a group
\* keyed by a date of that calendar or by February 29 the closing node is the
\* hour-0 value of the next calendar day (January 1 after December 31) and the
\* call raises nothing.
C4_ClosingNodeIsNextDay ==
    (tmy_data.missing = {} /\ \A i \in Groups : IsDate(<<2024, KeyOf(i)[2], KeyOf(i)[3]>>))
    => /\ pc # "raised"
       /\ JustInterpolated =>
             LET nd == NextCalendarDay(ymd[2], LookupDayOf(ymd))
             IN  /\ Len(y_interp) = 25
                 /\ y_interp[25] = TmyCell(tmy_data, nd[1], nd[2], 0, col)

C4_Witness ==
    /\ tmy_data.missing = {}
    /\ JustInterpolated
    /\ ymd = <<2024, 12, 31>>
    /\ col = "RH"
    /\ y_interp[25] = TmyCell(tmy_data, 1, 1, 0, "RH")
    /\ y_interp[25] # TmyCell(tmy_data, 12, 31, 0, "RH")

\* C5: the returned dict has exactly the keys of time_data; each table is indexed
\* by its group's timestamps in order, has one row per timestamp and the columns
\* hms_float followed by the TMY columns.
C5_ResultShape ==
    Returned =>
        /\ DOMAIN result[1] = {KeyOf(i) : i \in Groups}
        /\ \A i \in Groups :
              /\ TableOf(i).index = time_data[i].times
              /\ TableOf(i).columns = <<"hms_float">> \o TmyColumns
              /\ Len(TableOf(i).columns) = 1 + Len(TmyColumns)
              /\ DOMAIN TableOf(i).data = {"hms_float"} \cup ColumnNames
              /\ \A cn \in DOMAIN TableOf(i).data :
                    /\ Len(TableOf(i).data[cn]) = Len(time_data[i].times)
                    /\ \A p \in Positions(i) : CellOf(i, cn, p) # NaN

C5_Witness ==
    /\ Returned
    /\ Len(time_data) = MaxGroups
    /\ \A i \in Groups : Len(time_data[i].times) = MaxLen
    /\ Cardinality(DOMAIN result[1]) = MaxGroups

\* C6: with method linear a timestamp at fractional hour t between the nodes h
\* and h+1 gets y[h] + (t - h) * (y[h+1] - y[h]), t = hour + minute/60 + second/3600.
C6_LinearFormula ==
    (Returned /\ interp_method = "linear") =>
        \A i \in Groups : \A p \in Positions(i) : \A cn \in ColumnNames :
            LET ts == StampOf(i, p)
                h  == ts.hour
                t  == SecondsOfDay(ts)
            IN  CellOf(i, cn, p) =
                    Exact(3600 * NodeOf(i, cn, h)
                          + (t - 3600 * h) * (NodeOf(i, cn, h + 1) - NodeOf(i, cn, h)))

\* Nodes 20 at hour 10 and 21 at hour 11 give 20.5 (73800/3600) at 10:30.
C6_Witness ==
    /\ Returned
    /\ interp_method = "linear"
    /\ \E i \in Groups : \E p \in Positions(i) :
          /\ KeyOf(i) = <<2023, 6, 15>>
          /\ SecondsOfDay(StampOf(i, p)) = 10 * 3600 + 30 * 60
          /\ NodeOf(i, "T2m", 10) = 20
          /\ NodeOf(i, "T2m", 11) = 21
          /\ CellOf(i, "T2m", p) = Exact(73800)

\* C7 as stated: in the last hour of the day the value does not exceed the
\* closing-node value and gets closer to it as the time of day approaches
\* midnight (stated of the values the model evaluates).
C7_Original ==
    Returned =>
        \A i \in Groups : \A p \in Positions(i) : \A cn \in ColumnNames :
            LET v   == CellOf(i, cn, p)
                y24 == 3600 * NodeOf(i, cn, 24)
            IN  (StampOf(i, p).hour = 23 /\ v.kind = "exact") =>
                    /\ v.num <= y24
                    /\ \A q \in Positions(i) :
                          ( /\ StampOf(i, q).hour = 23
                            /\ SecondsOfDay(StampOf(i, q)) >= SecondsOfDay(StampOf(i, p))
                            /\ CellOf(i, cn, q).kind = "exact" )
                          => Abs(CellOf(i, cn, q).num - y24) <= Abs(v.num - y24)

\* C7 amended: with method linear the value at time of day t in the last hour
\* lies between the hour-23 value y23 and the closing-node value y24, at distance
\* (24 - t) * |y24 - y23| from y24.
C7_LastHourLinear ==
    (Returned /\ interp_method = "linear") =>
        \A i \in Groups : \A p \in Positions(i) : \A cn \in ColumnNames :
            LET v   == CellOf(i, cn, p)
                t   == SecondsOfDay(StampOf(i, p))
                y23 == NodeOf(i, cn, 23)
                y24 == NodeOf(i, cn, 24)
            IN  StampOf(i, p).hour = 23 =>
                    /\ v.kind = "exact"
                    /\ \/ 3600 * y23 <= v.num /\ v.num <= 3600 * y24
                       \/ 3600 * y24 <= v.num /\ v.num <= 3600 * y23
                    /\ Abs(v.num - 3600 * y24) = (24 * 3600 - t) * Abs(y24 - y23)

\* A value one second before midnight that is above the closing-node value.
C7_Witness ==
    /\ Returned
    /\ interp_method = "linear"
    /\ \E i \in Groups : \E p \in Positions(i) : \E cn \in ColumnNames :
          /\ SecondsOfDay(StampOf(i, p)) = 24 * 3600 - 1
          /\ NodeOf(i, cn, 23) > NodeOf(i, cn, 24)
          /\ CellOf(i, cn, p).num > 3600 * NodeOf(i, cn, 24)

\* None of the three fallback keys of group i exists in the TMY table.
NoClosingKey(i) ==
    LET m  == KeyOf(i)[2]
        ld == LookupDayOf(KeyOf(i))
    IN  /\ ~TmyHasRow(tmy_data, m, ld + 1, 0)
        /\ ~TmyHasRow(tmy_data, m + 1, 1, 0)
        /\ ~TmyHasRow(tmy_data, 1, 1, 0)

\* C8: when none of the three fallback keys of some group exists, the call never
\* returns: it does not get past that group, no TMY column of that group's table
\* is ever filled, and a call that raised has returned nothing.
C8_MissingClosingNodeAborts ==
    /\ pc = "raised" => result = <<>>
    /\ \A i \in Groups :
          NoClosingKey(i) =>
              /\ pc # "returned"
              /\ result = <<>>
              /\ g <= i
              /\ KeyOf(i) \in DOMAIN climate_data =>
                    \A cn \in ColumnNames : \A p \in Positions(i) :
                        climate_data[KeyOf(i)].data[cn][p] = NaN

\* The second group has no closing key: the call raises there, with the first
\* group's table complete and the second's holding only hms_float.
C8_Witness ==
    /\ pc = "raised"
    /\ error = "KeyError"
    /\ g = 2
    /\ NoClosingKey(2)
    /\ ~NoClosingKey(1)
    /\ ~LocDayRaises(tmy_data, ymd[2], day_)
    /\ Len(time_data[1].times) > 0
    /\ Len(time_data[2].times) > 0
    /\ climate_data[KeyOf(1)].data["T2m"][1] # NaN
    /\ climate_data[KeyOf(2)].data["hms_float"][1] # NaN
    /\ climate_data[KeyOf(2)].data["T2m"][1] = NaN
    /\ result = <<>>

\* The 25 nodes of group i in column cn.
NodesOf(i, cn) == [n \in 1..25 |-> NodeOf(i, cn, n - 1)]

\* C9: no step changes tmy_data or time_data, a step leaves the tables of the
\* other groups and the other columns of the current table as they are, and the
\* returned table of a group is a function of that group's timestamps and, column
\* by column, of that column of the TMY table.
C9_PureAndIndependent ==
    /\ [][ /\ tmy_data' = tmy_data
           /\ time_data' = time_data
           /\ interp_method' = interp_method
           /\ \A k \in DOMAIN climate_data :
                 /\ k \in DOMAIN climate_data'
                 /\ k # ymd' => climate_data'[k] = climate_data[k]
                 /\ (k = ymd' /\ pc = "column") =>
                       \A cn \in DOMAIN climate_data[k].data :
                           cn # col' => climate_data'[k].data[cn] = climate_data[k].data[cn]
         ]_vars
    /\ [](Returned =>
            \A i \in Groups : \A p \in Positions(i) :
                /\ CellOf(i, "hms_float", p) = Exact(SecondsOfDay(StampOf(i, p)))
                /\ \A cn \in ColumnNames :
                      CellOf(i, cn, p) =
                          InterpAt(interp_method, x_interp, NodesOf(i, cn),
                                   SecondsOfDay(StampOf(i, p))))

C9_Witness ==
    /\ Returned
    /\ Len(time_data) = MaxGroups
    /\ KeyOf(1) = <<2024, 12, 31>>
    /\ KeyOf(2) = <<2024, 2, 28>>
    /\ Len(time_data[1].times) > 0
    /\ Len(time_data[2].times) > 0
    /\ TableOf(1).data["T2m"] # TableOf(2).data["T2m"]
    /\ TableOf(1).data["T2m"] # TableOf(1).data["RH"]

\* C10: two timestamps filed under keys with the same (month, day) and showing
\* the same hour, minute and second get the same value in every column, whatever
\* the keys' years, the timestamps' dates and their sub-second parts; and the
\* fractional hour is in [0, 24).
C10_OnlyMonthDayAndHms ==
    Returned =>
        /\ \A i, j \in Groups : \A p \in Positions(i) : \A q \in Positions(j) :
              ( /\ KeyOf(i)[2] = KeyOf(j)[2]
                /\ KeyOf(i)[3] = KeyOf(j)[3]
                /\ StampOf(i, p).hour = StampOf(j, q).hour
                /\ StampOf(i, p).minute = StampOf(j, q).minute
                /\ StampOf(i, p).second = StampOf(j, q).second )
              => \A cn \in {"hms_float"} \cup ColumnNames : CellOf(i, cn, p) = CellOf(j, cn, q)
        /\ \A i \in Groups : \A p \in Positions(i) :
              /\ CellOf(i, "hms_float", p).kind = "exact"
              /\ CellOf(i, "hms_float", p).num \in 0..(24 * 3600 - 1)

\* Two groups for February 28 of different years, one of them holding timestamps
\* of another date with a sub-second part, both returned.
C10_Witness ==
    /\ Returned
    /\ \E i, j \in Groups :
          /\ KeyOf(i) = <<2023, 2, 28>>
          /\ KeyOf(j) = <<2024, 2, 28>>
          /\ Len(time_data[i].times) > 0
          /\ Len(time_data[j].times) > 0
          /\ StampOf(i, 1).month = 7
          /\ StampOf(i, 1).ms = 999
          /\ StampOf(j, 1).ms = 0
          /\ SecondsOfDay(StampOf(i, 1)) = SecondsOfDay(StampOf(j, 1))
          /\ CellOf(i, "RH", 1) = CellOf(j, "RH", 1)

(***************************************************************************)
(* get_pvgis_tmy_dataframe.                                                *)
(*                                                                         *)
(* The response of pvlib.iotools.get_pvgis_tmy is a table of 8760 hourly   *)
(* rows indexed by UTC timestamps: for every month of the year its days    *)
(* (28 for February) and their 24 hours, the month m taken from the year   *)
(* response[m] the TMY selected for it.  A timestamp is                    *)
(* <<year, month, day, hour, minute>>.  A row carries src, its position in *)
(* the response, in place of its eight values.                             *)
(*                                                                         *)
(* tz is a fixed offset ("-05:00") or a named zone.  "Europe/Berlin" is    *)
(* UTC+1, and UTC+2 from 01:00 UTC of the last Sunday of March to          *)
(* 01:00 UTC of the last Sunday of October.                                *)
(***************************************************************************)
ResponseYears == {2007, 2008}

Responses ==
    {[m \in 1..12 |-> IF m = 2 THEN yf ELSE IF m = 3 THEN ym ELSE yo] :
        yf \in ResponseYears, ym \in ResponseYears, yo \in ResponseYears}

TimeZones == {"-05:00", "+00:00", "+01:00", "+05:30", "Europe/Berlin"}

\* The UTC index of the response, in order.
RECURSIVE MonthStamps(_, _)
MonthStamps(resp, m) ==
    IF m > 12 THEN <<>>
    ELSE [n \in 1..(24 * TmyDaysInMonth(m)) |->
             <<resp[m], m, ((n - 1) \div 24) + 1, (n - 1) % 24, 0>>]
         \o MonthStamps(resp, m + 1)

\* tmy_data = pv.iotools.get_pvgis_tmy(...)[0]
ResponseTable(resp) ==
    LET idx == MonthStamps(resp, 1)
    IN  [i \in 1..Len(idx) |-> [ts |-> idx[i], src |-> i, Month |-> 0, Day |-> 0, Hour |-> 0]]

\* The last Sunday of March (k = 4) and of October (k = 1) of year y.
LastSunday(y, k) == 31 - (((5 * y) \div 4 + k) % 7)

Before(a, b) ==
    \/ a[1] < b[1]
    \/ a[1] = b[1] /\ a[2] < b[2]
    \/ a[1] = b[1] /\ a[2] = b[2] /\ a[3] < b[3]

\* The offset from UTC, in minutes, of zone zone at the UTC timestamp ts.
UtcOffset(zone, ts) ==
    CASE zone = "-05:00" -> 0 - 300
      [] zone = "+00:00" -> 0
      [] zone = "+01:00" -> 60
      [] zone = "+05:30" -> 330
      [] zone = "Europe/Berlin" ->
            LET mdh == <<ts[2], ts[3], ts[4]>>
            IN  IF /\ ~Before(mdh, <<3, LastSunday(ts[1], 4), 1>>)
                   /\ Before(mdh, <<10, LastSunday(ts[1], 1), 1>>)
                THEN 120 ELSE 60

PrevDate(date) ==
    IF date[3] > 1 THEN <<date[1], date[2], date[3] - 1>>
    ELSE IF date[2] > 1 THEN <<date[1], date[2] - 1, DaysInMonth(date[1], date[2] - 1)>>
    ELSE <<date[1] - 1, 12, 31>>

\* index.tz_convert(tz) for one timestamp: the wall clock of the same instant.
TzConvert(zone, ts) ==
    LET total == 60 * ts[4] + ts[5] + UtcOffset(zone, ts)
        date  == <<ts[1], ts[2], ts[3]>>
        local == IF total < 0 THEN PrevDate(date)
                 ELSE IF total >= 24 * 60 THEN NextDate(date)
                 ELSE date
        mins  == (total + 24 * 60) % (24 * 60)
    IN  <<local[1], local[2], local[3], mins \div 60, mins % 60>>

KeyBefore(r1, r2) == Before(<<r1.Month, r1.Day, r1.Hour>>, <<r2.Month, r2.Day, r2.Hour>>)

\* tmy_data.sort_values(by = ["Month", "Day", "Hour"])
SortValues(rows) == SortSeq(rows, KeyBefore)

FetchTmy ==
    /\ fpc = "call"
    /\ tmy_table' = ResponseTable(response)
    /\ fpc' = "fetched"
    /\ UNCHANGED <<tz, response>>
    /\ UNCHANGED interpVars

\* new_tmy_index = tmy_data.index.tz_convert(tz); tmy_data.reindex(new_tmy_index):
\* every row is found again under the same instant.
ConvertIndex ==
    /\ fpc = "fetched"
    /\ tmy_table' = [i \in 1..Len(tmy_table) |->
                        [tmy_table[i] EXCEPT !.ts = TzConvert(tz, tmy_table[i].ts)]]
    /\ fpc' = "converted"
    /\ UNCHANGED <<tz, response>>
    /\ UNCHANGED interpVars

\* The columns Month, Day and Hour of the local timestamps.
DeriveColumns ==
    /\ fpc = "converted"
    /\ tmy_table' = [i \in 1..Len(tmy_table) |->
                        [tmy_table[i] EXCEPT !.Month = tmy_table[i].ts[2],
                                             !.Day   = tmy_table[i].ts[3],
                                             !.Hour  = tmy_table[i].ts[4]]]
    /\ fpc' = "keyed"
    /\ UNCHANGED <<tz, response>>
    /\ UNCHANGED interpVars

SortRows ==
    /\ fpc = "keyed"
    /\ tmy_table' = SortValues(tmy_table)
    /\ fpc' = "sorted"
    /\ UNCHANGED <<tz, response>>
    /\ UNCHANGED interpVars

\* set_index(["Month", "Day", "Hour"]), the renaming of the columns, return.
SetIndexAndReturn ==
    /\ fpc = "sorted"
    /\ tmy_table' = [i \in 1..Len(tmy_table) |->
                        [key |-> <<tmy_table[i].Month, tmy_table[i].Day, tmy_table[i].Hour>>,
                         src |-> tmy_table[i].src]]
    /\ fpc' = "returned"
    /\ UNCHANGED <<tz, response>>
    /\ UNCHANGED interpVars

NextFetch ==
    \/ FetchTmy
    \/ ConvertIndex
    \/ DeriveColumns
    \/ SortRows
    \/ SetIndexAndReturn

InitFetch ==
    /\ fpc = "call"
    /\ tz \in TimeZones
    /\ response \in Responses
    /\ tmy_table = <<>>
    /\ tmy_data = [seed |-> 0, missing |-> {}]
    /\ time_data = <<>>
    /\ interp_method = "linear"
    /\ InitInterpLocals

SpecFetch == InitFetch /\ [][NextFetch]_vars

(***************************************************************************)
(* Properties of get_pvgis_tmy_dataframe.                                  *)
(***************************************************************************)
CalendarKeySet == {k \in (1..12) \X (1..31) \X (0..23) : k[2] <= TmyDaysInMonth(k[1])}

\* C1: the returned table has 8760 rows, exactly one for every (month, day, hour)
\* of the non-leap calendar, none for February 29, in ascending key order.
C1_NormalizedTable ==
    fpc = "returned" =>
        /\ Len(tmy_table) = 8760
        /\ {tmy_table[i].key : i \in 1..Len(tmy_table)} = CalendarKeySet
        /\ \A i \in 1..(Len(tmy_table) - 1) : Before(tmy_table[i].key, tmy_table[i + 1].key)

====
